---- MODULE Spec2Model ----
(***************************************************************************)
(* Model of the PwC hybrid automation's Node side:                         *)
(*   node/scheduler.js   (doRun, rotateSessions, runLock, the triggers)    *)
(*   node/login.js       (loginAndDiscover, getGmailOtp, ensureTmpDir)     *)
(*   node/discover_api.js (attachApiDiscovery, saveApiMap)                 *)
(* The last two are carried in README_FULL.md.                             *)
(***************************************************************************)
EXTENDS Integers, Sequences, FiniteSets, TLC

\* ------------------------------------------------------------------ bounds
\* doRun invocations (startup + interval ticks + manual POSTs) per behaviour
MaxTriggers == 2
\* *.json files of other programs lying in /tmp when the process starts
MaxTmpJson == 4
\* session files left in the session directory by earlier process lifetimes
MaxInitSessions == 5
\* send-code controls (frame x selector with count > 0) one MFA step can meet
MaxControls == 2
\* requests the page emits while one discovery is attached
MaxRequests == 2
\* MIME parts under the payload of the OTP mail
MaxParts == 2
\* candidates one export yields
MaxCandidates == 3
\* documents one candidate has
MaxDocs == 2
\* largest MAX_CONCURRENT_CANDIDATES the fetch service is configured with
MaxPool == 2
\* candidate identifiers the sheet and the fetched rows range over
MaxIds == 2
\* merges into the sheet per behaviour
MaxMerges == 2

\* ------------------------------------------------------- program constants
\* sorted.slice(0, 3) / sorted.slice(3)
KeepCount == 3
\* for (let attempt = 0; attempt < 3; attempt++)
OtpAttempts == 3
\* for (let i = 0; i < 10; i++)  (the send-code button's enabled poll)
MaxPolls == 10

VARIABLES
    credsSet,    \* PWC_USERNAME/PWC_EMAIL and PWC_PASSWORD are both set
    usableDirs,  \* the directories mkdir/access succeed on
    started,     \* app.listen's callback has run
    runLock,     \* scheduler.js: let runLock
    inv,         \* the doRun invocations: where each one stands, and its locals
    nTrig,       \* number of doRun invocations made so far
    fs,          \* the files on disk
    clock,       \* source of modification times
    uuidCount,   \* uuidv4() values handed out so far
    browsers,    \* the invocations whose chromium instance is open
    posts,       \* bodies POSTed to EXPORT_SERVICE_URL/trigger-fetch, in order
    last,        \* what the most recently returned doRun returned
    loginFailed, \* the invocations whose loginAndDiscover threw
    \* the closure of one attachApiDiscovery(page, sessionId, outDir)
    apiRequests,        \* the Set apiRequests, in insertion order
    exportEndpoints,    \* apiMap.exportEndpoints: key -> info
    candidateEndpoints, \* apiMap.candidateEndpoints: key -> info
    documentEndpoints,  \* apiMap.documentEndpoints: key -> info
    nReq,               \* requests the page has emitted so far
    lastReq,            \* the request the listener ran on last
    observed,           \* the requests the listener ran on, in order
    saved,              \* the file saveApiMap wrote: its content, how often, and
                        \* how many requests had been observed by then
    \* one call of getGmailOtp()
    gmail,       \* what the Gmail API has for this call
    otpOut,      \* what the call returned or threw
    \* one batch of the Fetch Orchestrator (the service behind /trigger-fetch)
    maxConcurrent, \* MAX_CONCURRENT_CANDIDATES
    cand,          \* per candidate: where it stands, its documents
    \* the Sync/Audit Writer and its sheet
    sheet,       \* the data rows, top to bottom
    audit,       \* the Audit Log sheet, top to bottom
    lastRows,    \* the row set of the latest merge
    nMerges      \* merges done so far

schedVars == <<credsSet, usableDirs, started, runLock, inv, nTrig, fs, clock, uuidCount, browsers,
               posts, last, loginFailed>>
obsVars == <<apiRequests, exportEndpoints, candidateEndpoints, documentEndpoints, nReq,
             lastReq, observed, saved>>
otpVars == <<gmail, otpOut>>
fetchVars == <<maxConcurrent, cand>>
syncVars == <<sheet, audit, lastRows, nMerges>>
vars == <<schedVars, obsVars, otpVars, fetchVars, syncVars>>

\* what the steps of each component leave alone
restOfSched == <<obsVars, otpVars, fetchVars, syncVars>>
restOfObs == <<schedVars, otpVars, fetchVars, syncVars>>
restOfOtp == <<schedVars, obsVars, fetchVars, syncVars>>
restOfFetch == <<schedVars, obsVars, otpVars, syncVars>>
restOfSync == <<schedVars, obsVars, otpVars, fetchVars>>

\* ------------------------------------------------------------- file system
TmpDir == "/tmp"
PwcDir == "/tmp/pwc"
CwdDir == "cwd/tmp/pwc"

\* path.join(baseDir, `${sessionId}.json`)
SessionName(sid) == [kind |-> "session", id |-> sid, ext |-> "json"]
\* path.join(outDir, `pwc_api_map_${sessionId}.json`)
ApiMapName(sid) == [kind |-> "pwc_api_map", id |-> sid, ext |-> "json"]
OtherName(k) == [kind |-> "other", id |-> k, ext |-> "json"]
\* the entry `pwc` of /tmp: the session directory itself
PwcEntry == [kind |-> "pwc", id |-> 0, ext |-> ""]

File(d, n, t, c) == [dir |-> d, name |-> n, mtime |-> t, content |-> c]

\* fs.readdir(dir): the names directly in dir (not recursive)
readdir(dir) == {f \in fs : f.dir = dir}

\* f.endsWith('.json')
endsWithJson(f) == f.name.ext = "json"

RECURSIVE SortByMtimeDesc(_)
\* sorted.sort((a, b) => b.t - a.t)
SortByMtimeDesc(S) ==
    IF S = {} THEN <<>>
    ELSE LET m == CHOOSE f \in S : \A g \in S : g.mtime <= f.mtime
         IN <<m>> \o SortByMtimeDesc(S \ {m})

\* sorted.slice(from) as a set
SliceFrom(s, from) == {s[i] : i \in (from + 1)..Len(s)}

\* the directory rotateSessions lists: const tmp = '/tmp'
RotateDir == TmpDir

\* what rotateSessions unlinks when every unlink succeeds
RotateVictims ==
    SliceFrom(SortByMtimeDesc({f \in readdir(RotateDir) : endsWithJson(f)}), KeepCount)

\* --------------------------------------------------------------- doRun
NoEvidence == [elem |-> FALSE, cookie |-> FALSE, url |-> FALSE, body |-> FALSE]

\* an invocation that is not running; its locals are out of scope
Idle == [pc |-> "idle", src |-> "none", sid |-> 0, dir |-> "none", err |-> "",
         shot |-> FALSE, ctl |-> 0, polls |-> 0, clicked |-> FALSE, starved |-> FALSE,
         attempt |-> 0, otpCalls |-> 0, backoffs |-> 0, otp |-> "null",
         filled |-> FALSE, submitted |-> FALSE, ev |-> NoEvidence,
         health |-> "none", apiMap |-> 0]

Slots == 1..MaxTriggers
Active == {i \in Slots : inv[i].pc # "idle"}

\* mutant: the lock is never looked at
LockFree_AlwaysFree == TRUE

\* if (runLock) { ... return }  : the guard under which doRun goes on
LockFree == runLock = FALSE

\* mutant: the handler answers res.json(result), status 200 whatever ok is
HttpStatus_AlwaysOk(ok) == 200

\* res.status(result.ok ? 200 : 500)
HttpStatus(ok) == IF ok THEN 200 ELSE 500

\* what doRun returned, and for a manual trigger what the HTTP handler answered:
\* { ok: true, message, result: json }, { ok: false, message, json } or
\* { ok: false, message }, reply being the export service's answer if any
Returned(i, src, ok, msg, reply) ==
    [id |-> i, src |-> src, ok |-> ok, message |-> msg,
     result |-> IF ok THEN reply ELSE "none",
     json |-> IF ok THEN "none" ELSE reply,
     status |-> IF src = "manual" THEN HttpStatus(ok) ELSE 0]

\* mutant: the lock test sits inside the try, so the rejected call's finally
\* releases the lock of the run in progress
doRun_ReleaseOnReject(src) ==
    /\ nTrig < MaxTriggers
    /\ nTrig' = nTrig + 1
    /\ IF LockFree
       THEN /\ runLock' = TRUE
            /\ inv' = [inv EXCEPT ![nTrig + 1] = [Idle EXCEPT !.pc = "rotate", !.src = src]]
            /\ UNCHANGED last
       ELSE /\ last' = Returned(nTrig + 1, src, FALSE, "Run in progress", "none")
            /\ runLock' = FALSE
            /\ UNCHANGED inv
    /\ UNCHANGED restOfSched /\ UNCHANGED <<credsSet, usableDirs, fs, clock, uuidCount, browsers, posts, loginFailed>>

\* doRun(src) up to its first await: the lock test, runLock = true, and the
\* call of rotateSessions up to fs.readdir
doRun(src) ==
    /\ nTrig < MaxTriggers
    /\ nTrig' = nTrig + 1
    /\ IF LockFree
       THEN /\ runLock' = TRUE
            /\ inv' = [inv EXCEPT ![nTrig + 1] = [Idle EXCEPT !.pc = "rotate", !.src = src]]
            /\ UNCHANGED last
       ELSE /\ last' = Returned(nTrig + 1, src, FALSE, "Run in progress", "none")
            /\ UNCHANGED <<runLock, inv>>
    /\ UNCHANGED restOfSched /\ UNCHANGED <<credsSet, usableDirs, fs, clock, uuidCount, browsers, posts, loginFailed>>

\* app.listen(PORT, () => { doRun('startup'); setInterval(...) })
Listen ==
    /\ ~started
    /\ started' = TRUE
    /\ doRun("startup")

\* setInterval(() => doRun('interval'), ...)
IntervalTick ==
    /\ started
    /\ UNCHANGED started
    /\ doRun("interval")

\* app.post('/login-and-run', ...)
ManualPost ==
    /\ started
    /\ UNCHANGED started
    /\ doRun("manual")

\* mutant: the lock is released at the end of the try block only, so a return
\* from inside it or a caught error leaves it set
Return_KeepsLock(i, ok, msg, result) ==
    /\ last' = Returned(i, inv[i].src, ok, msg, result)
    /\ inv' = [inv EXCEPT ![i] = Idle]
    /\ runLock' = runLock

\* doRun's return statement (or its catch) followed by finally { runLock = false }
Return(i, ok, msg, result) ==
    /\ last' = Returned(i, inv[i].src, ok, msg, result)
    /\ inv' = [inv EXCEPT ![i] = Idle]
    /\ runLock' = FALSE

\* one step of invocation i that only moves it on
Goto(i, pc) == inv' = [inv EXCEPT ![i].pc = pc]

\* await rotateSessions(): readdir (an error gives []), stat of every *.json
\* (an error rejects Promise.all and so the run), sort, unlink of all but the
\* newest three (errors swallowed, the file then stays)
rotateSessions(i) ==
    /\ inv[i].pc = "rotate"
    /\ \/ \* readdir failed, or nothing to delete, or every unlink worked ...
          \E stay \in SUBSET RotateVictims :
             /\ fs' = (fs \ RotateVictims) \cup stay
             /\ Goto(i, "login")
             /\ UNCHANGED <<runLock, last>>
       \/ \* fs.stat of a listed file throws
          /\ {f \in readdir(RotateDir) : endsWithJson(f)} # {}
          /\ Return(i, FALSE, "stat failed", "none")
          /\ UNCHANGED fs
    /\ UNCHANGED restOfSched /\ UNCHANGED <<credsSet, usableDirs, started, nTrig, clock, uuidCount, browsers, posts, loginFailed>>

\* ------------------------------------------------------ loginAndDiscover
ErrMissingCreds == "Missing PWC_USERNAME/PWC_EMAIL or PWC_PASSWORD"
ErrLaunch == "browser launch failed"
ErrTmpDir == "Could not create or access tmp directory"
ErrGoto == "page.goto: Timeout"
ErrEmail == "Email field not found"
ErrPassword == "Password field not found"
ErrSubmit == "Submit button not found"
ErrMfa == "MFA selection failed"
ErrOtpField == "OTP input not found"
ErrOtpFetch == "Failed to fetch OTP from Gmail after 3 attempts"
ErrOtpNull == "OTP not retrieved from Gmail"
ErrOtpFill == "locator.fill: Error"
ErrOtpSubmit == "Submit button not found after OTP entry"
ErrSettle == "page.waitForLoadState: Timeout"
ErrUnverified == "Login incomplete - could not verify success"
ErrDashboard == "page.goto: dashboard Timeout"
ErrSaveState == "writeFile(sessionPath) failed"
ErrSaveMap == "writeFile(apiMapPath) failed"

\* const dirsToTry = [ '/tmp/pwc', cwd + '/tmp/pwc' ]
dirsToTry == <<PwcDir, CwdDir>>

\* ensureTmpDir(): the first directory of dirsToTry that can be made and
\* accessed, or a throw
ensureTmpDir ==
    IF \E k \in 1..Len(dirsToTry) : dirsToTry[k] \in usableDirs
    THEN dirsToTry[CHOOSE k \in 1..Len(dirsToTry) :
                     /\ dirsToTry[k] \in usableDirs
                     /\ \A j \in 1..(k - 1) : dirsToTry[j] \notin usableDirs]
    ELSE "throw"

\* the steps of loginAndDiscover never touch the scheduler's or the disk's state
LoginFrame ==
    UNCHANGED restOfSched /\ UNCHANGED <<credsSet, usableDirs, started, runLock, nTrig, fs, clock, uuidCount, browsers, posts,
                last, loginFailed>>

\* a throw inside loginAndDiscover's try: control passes to its finally
Throw(i, msg, shot) ==
    /\ inv' = [inv EXCEPT ![i].pc = "finally", ![i].err = msg, ![i].shot = shot]
    /\ LoginFrame

Step(i, pc) == Goto(i, pc) /\ LoginFrame

\* mutant: the generator hands out the value it handed out last
uuidv4_Repeats == IF uuidCount = 0 THEN 1 ELSE uuidCount

\* const sessionId = uuidv4(): a value never handed out before
uuidv4 == uuidCount + 1

\* the credential check, chromium.launch, newContext, newPage, uuidv4 and
\* ensureTmpDir/getSessionPath: all before the try, so a throw here leaves
\* loginAndDiscover without running its finally
loginStart(i) ==
    /\ inv[i].pc = "login"
    /\ IF ~credsSet
       THEN /\ Return(i, FALSE, ErrMissingCreds, "none")
            /\ loginFailed' = loginFailed \cup {i}
            /\ UNCHANGED <<browsers, uuidCount>>
       ELSE \/ /\ Return(i, FALSE, ErrLaunch, "none")
               /\ loginFailed' = loginFailed \cup {i}
               /\ UNCHANGED <<browsers, uuidCount>>
            \/ /\ browsers' = browsers \cup {i}
               /\ uuidCount' = uuidCount + 1
               /\ IF ensureTmpDir = "throw"
                  THEN /\ Return(i, FALSE, ErrTmpDir, "none")
                       /\ loginFailed' = loginFailed \cup {i}
                  ELSE /\ inv' = [inv EXCEPT ![i].pc = "goto", ![i].dir = ensureTmpDir,
                                             ![i].sid = uuidv4]
                       /\ UNCHANGED <<runLock, last, loginFailed>>
    /\ UNCHANGED restOfSched /\ UNCHANGED <<credsSet, usableDirs, started, nTrig, fs, clock, posts>>

\* page.goto(login page, { timeout: 60000 })
gotoLogin(i) ==
    /\ inv[i].pc = "goto"
    /\ \/ Step(i, "email")
       \/ Throw(i, ErrGoto, FALSE)

\* tryFill(page, [...], PWC_EMAIL)
fillEmail(i) ==
    /\ inv[i].pc = "email"
    /\ \/ Step(i, "next")
       \/ Throw(i, ErrEmail, FALSE)

\* tryClick(page, [Next/Continue]): its result is not looked at
clickNext(i) ==
    /\ inv[i].pc = "next"
    /\ Step(i, "password")

\* tryFill(page, [...], PWC_PASSWORD)
fillPassword(i) ==
    /\ inv[i].pc = "password"
    /\ \/ Step(i, "submit")
       \/ Throw(i, ErrPassword, FALSE)

\* tryClick(page, [submit selectors])
submitLogin(i) ==
    /\ inv[i].pc = "submit"
    /\ \/ Step(i, "mfaPrompt")
       \/ Throw(i, ErrSubmit, FALSE)

\* catch (err) { screenshot; throw new Error(`MFA selection failed: ...`) }
ThrowMfa(i) == Throw(i, ErrMfa, TRUE)

\* waitForSelector('Choose one of the following options'); emailOption.click
mfaPrompt(i) ==
    /\ inv[i].pc = "mfaPrompt"
    /\ \/ Step(i, "mfaFind")
       \/ ThrowMfa(i)

\* the loops over frames and btnSelectors: the next control with count > 0
mfaFind(i) ==
    /\ inv[i].pc = "mfaFind"
    /\ \/ /\ inv[i].ctl < MaxControls
          /\ inv' = [inv EXCEPT ![i].pc = "mfaPoll", ![i].ctl = @ + 1, ![i].polls = 0]
          /\ LoginFrame
       \/ Step(i, "mfaJs")

\* for (let i = 0; i < 10; i++) { disabled? click : waitForTimeout(1000) }
mfaPoll(i) ==
    /\ inv[i].pc = "mfaPoll"
    /\ inv[i].polls < MaxPolls
    /\ \/ \* still disabled: wait a second, poll again or give this control up
          /\ inv' = IF inv[i].polls + 1 < MaxPolls
                    THEN [inv EXCEPT ![i].polls = @ + 1]
                    ELSE [inv EXCEPT ![i].polls = 0, ![i].starved = TRUE,
                                     ![i].pc = "mfaFind"]
          /\ LoginFrame
       \/ \* enabled and clicked
          /\ inv' = [inv EXCEPT ![i].clicked = TRUE, ![i].polls = 0, ![i].pc = "mfaWait"]
          /\ LoginFrame
       \/ \* enabled, click throws: catch (e) { continue }
          /\ inv' = [inv EXCEPT ![i].polls = 0, ![i].pc = "mfaFind"]
          /\ LoginFrame

\* if (!clicked) page.evaluate(find /send.*code/i and click it): target.click()
\* is called whether or not the button is disabled
mfaJs(i) ==
    /\ inv[i].pc = "mfaJs"
    /\ \/ Step(i, "mfaWait")
       \/ ThrowMfa(i)

\* waitForSelector(OTP-like input, { timeout: 30000 })
mfaWait(i) ==
    /\ inv[i].pc = "mfaWait"
    /\ \/ \* the try block ends: frames, clicked go out of scope
          /\ inv' = [inv EXCEPT ![i].ctl = 0, ![i].clicked = FALSE, ![i].starved = FALSE,
                                ![i].pc = "findOtp"]
          /\ LoginFrame
       \/ ThrowMfa(i)

\* findOtpInputInAllFrames(page, 30000)
findOtp(i) ==
    /\ inv[i].pc = "findOtp"
    /\ \/ Step(i, "getOtp")
       \/ Throw(i, ErrOtpField, TRUE)

\* mutant: off by one, a backoff follows the third failure too
MoreAttempts_OneMore(attempt) == attempt < 3

\* if (attempt < 2) back off, else give up
MoreAttempts(attempt) == attempt < 2

\* mutant: the last failure is logged and the flow goes on without a code
getOtp_Lenient(i) ==
    /\ inv[i].pc = "getOtp"
    /\ \/ /\ inv' = [inv EXCEPT ![i].otp = "code", ![i].otpCalls = @ + 1,
                                ![i].pc = "fillOtp"]
          /\ LoginFrame
       \/ IF MoreAttempts(inv[i].attempt)
          THEN /\ inv' = [inv EXCEPT ![i].otpCalls = @ + 1, ![i].pc = "backoff"]
               /\ LoginFrame
          ELSE /\ inv' = [inv EXCEPT ![i].otpCalls = @ + 1, ![i].pc = "fillOtp"]
               /\ LoginFrame

\* one pass of for (attempt = 0; attempt < 3; attempt++) { otp = await getGmailOtp() }
getOtp(i) ==
    /\ inv[i].pc = "getOtp"
    /\ IF inv[i].attempt < OtpAttempts
       THEN \/ \* getGmailOtp returned the code: break
               /\ inv' = [inv EXCEPT ![i].otp = "code", ![i].otpCalls = @ + 1,
                                     ![i].pc = "fillOtp"]
               /\ LoginFrame
            \/ \* getGmailOtp threw
               IF MoreAttempts(inv[i].attempt)
               THEN /\ inv' = [inv EXCEPT ![i].otpCalls = @ + 1, ![i].pc = "backoff"]
                    /\ LoginFrame
               ELSE /\ inv' = [inv EXCEPT ![i].otpCalls = @ + 1, ![i].pc = "finally",
                                          ![i].err = ErrOtpFetch]
                    /\ LoginFrame
       ELSE \* the loop ran out: if (!otp) throw
            Throw(i, ErrOtpNull, FALSE)

\* await new Promise(resolve => setTimeout(resolve, 5000)); attempt++
backoff(i) ==
    /\ inv[i].pc = "backoff"
    /\ inv' = [inv EXCEPT ![i].backoffs = @ + 1, ![i].attempt = @ + 1, ![i].pc = "getOtp"]
    /\ LoginFrame

\* await found.locator.fill(otp)
fillOtp(i) ==
    /\ inv[i].pc = "fillOtp"
    /\ \/ /\ inv' = [inv EXCEPT ![i].filled = TRUE, ![i].pc = "submitOtp"]
          /\ LoginFrame
       \/ Throw(i, ErrOtpFill, FALSE)

\* the two scans of submitSelectors: found.frame, then page
submitOtp(i) ==
    /\ inv[i].pc = "submitOtp"
    /\ \/ /\ inv' = [inv EXCEPT ![i].submitted = TRUE, ![i].pc = "settle"]
          /\ LoginFrame
       \/ Throw(i, ErrOtpSubmit, FALSE)

\* page.waitForLoadState('networkidle', { timeout: 30000 })
settle(i) ==
    /\ inv[i].pc = "settle"
    /\ \/ Step(i, "verify")
       \/ Throw(i, ErrSettle, FALSE)

Evidence == [elem : BOOLEAN, cookie : BOOLEAN, url : BOOLEAN, body : BOOLEAN]

\* mutant: every success indicator counts
loginSuccess_AnySignal(ev) == ev.url \/ ev.elem \/ ev.cookie \/ ev.body

\* the value of loginSuccess at `if (!loginSuccess)`:
\*   ev.url    currentUrl includes 'compliancenomination' or 'pwc.com'
\*   ev.elem   table, #dashboard or "Background Verification" was found
\*   ev.cookie cookies.length > 0 and one of them looks like an auth cookie
\*   ev.body   body text longer than 100 without 'sign in' and 'login'
loginSuccess(ev) ==
    LET s0 == FALSE
        s1 == IF ev.elem THEN TRUE ELSE s0
        s2 == IF ~s1 /\ ev.cookie THEN TRUE ELSE s1
        s3 == IF ~s2 /\ ev.url THEN (IF ev.body THEN TRUE ELSE s2) ELSE s2
    IN s3

\* mutant: the flow goes on to the dashboard whatever the evidence is
verify_AlwaysPasses(i) ==
    /\ inv[i].pc = "verify"
    /\ \E ev \in Evidence :
         /\ inv' = [inv EXCEPT ![i].ev = ev, ![i].pc = "dashboard"]
         /\ LoginFrame

\* // Verify login success
verify(i) ==
    /\ inv[i].pc = "verify"
    /\ \E ev \in Evidence :
         IF loginSuccess(ev)
         THEN /\ inv' = [inv EXCEPT ![i].ev = ev, ![i].pc = "dashboard"]
              /\ LoginFrame
         ELSE /\ inv' = [inv EXCEPT ![i].ev = ev, ![i].pc = "finally",
                                    ![i].err = ErrUnverified, ![i].shot = TRUE]
              /\ LoginFrame

\* page.goto(BGVDashboard), the waits, and the non-critical Advance search click
dashboard(i) ==
    /\ inv[i].pc = "dashboard"
    /\ \/ /\ inv' = [inv EXCEPT ![i].ev = NoEvidence, ![i].pc = "saveState"]
          /\ LoginFrame
       \/ Throw(i, ErrDashboard, FALSE)

\* fs.writeFile(path, ...): replaces the file at that path
WriteFile(d, n, c) ==
    /\ fs' = {f \in fs : ~(f.dir = d /\ f.name = n)} \cup {File(d, n, clock, c)}
    /\ clock' = clock + 1

\* storageState = await context.storageState(); fs.writeFile(sessionPath, ...)
saveState(i) ==
    /\ inv[i].pc = "saveState"
    /\ \/ /\ WriteFile(inv[i].dir, SessionName(inv[i].sid), inv[i].sid)
          /\ Goto(i, "saveMap")
          /\ UNCHANGED restOfSched /\ UNCHANGED <<credsSet, usableDirs, started, runLock, nTrig, uuidCount, browsers, posts,
                         last, loginFailed>>
       \/ Throw(i, ErrSaveState, FALSE)

\* apiMapPath = await saveDiscovery()  (saveApiMap)
saveMap(i) ==
    /\ inv[i].pc = "saveMap"
    /\ \/ /\ WriteFile(inv[i].dir, ApiMapName(inv[i].sid), inv[i].sid)
          /\ Goto(i, "finally")
          /\ UNCHANGED restOfSched /\ UNCHANGED <<credsSet, usableDirs, started, runLock, nTrig, uuidCount, browsers, posts,
                         last, loginFailed>>
       \/ Throw(i, ErrSaveMap, FALSE)

\* mutant: the error is swallowed and the caller goes on
closeBrowser_SwallowError(i) ==
    /\ inv[i].pc = "finally"
    /\ browsers' = browsers \ {i}
    /\ Goto(i, "readmap")
    /\ UNCHANGED <<runLock, last, loginFailed>>
    /\ UNCHANGED restOfSched /\ UNCHANGED <<credsSet, usableDirs, started, nTrig, fs, clock, uuidCount, posts>>

\* finally { await browser.close() }, then either the return value reaches doRun
\* or the error reaches doRun's catch
closeBrowser(i) ==
    /\ inv[i].pc = "finally"
    /\ browsers' = browsers \ {i}
    /\ IF inv[i].err # ""
       THEN /\ Return(i, FALSE, inv[i].err, "none")
            /\ loginFailed' = loginFailed \cup {i}
       ELSE \* only the returned { sessionId, sessionPath, apiMapPath, storageState } live on
            /\ inv' = [inv EXCEPT ![i] = [Idle EXCEPT !.pc = "readmap", !.src = inv[i].src,
                                                      !.sid = inv[i].sid, !.dir = inv[i].dir]]
            /\ UNCHANGED <<runLock, last, loginFailed>>
    /\ UNCHANGED restOfSched /\ UNCHANGED <<credsSet, usableDirs, started, nTrig, fs, clock, uuidCount, posts>>

\* ------------------------------------------------------- doRun, after login
\* mutant: a stale path, that of the session before
apiMapPath_Previous(r) == [dir |-> r.dir, name |-> ApiMapName(r.sid - 1)]

\* the path doRun reads the map from: the apiMapPath loginAndDiscover returned
apiMapPath(r) == [dir |-> r.dir, name |-> ApiMapName(r.sid)]

\* try { apiMap = JSON.parse(await fs.readFile(apiMapPath)) } catch {}
readApiMap(i) ==
    /\ inv[i].pc = "readmap"
    /\ LET p == apiMapPath(inv[i])
           hit == {f \in fs : f.dir = p.dir /\ f.name = p.name}
       IN \/ \E f \in hit : inv' = [inv EXCEPT ![i].apiMap = f.content, ![i].pc = "health"]
          \/ inv' = [inv EXCEPT ![i].apiMap = 0, ![i].pc = "health"]
    /\ LoginFrame

\* mutant: a health check that is not ok ends the run before the POST
health_Blocks(i) ==
    /\ inv[i].pc = "health"
    /\ \E h \in {"ok", "notok", "unreachable"} :
         IF h = "ok"
         THEN /\ inv' = [inv EXCEPT ![i].health = h, ![i].pc = "post"]
              /\ UNCHANGED <<runLock, last>>
         ELSE Return(i, FALSE, "Export service not healthy", "none")
    /\ UNCHANGED restOfSched /\ UNCHANGED <<credsSet, usableDirs, started, nTrig, fs, clock, uuidCount, browsers, posts, loginFailed>>

\* fetch(`${EXPORT_SERVICE_URL}/health`).catch(() => null): only logged
health(i) ==
    /\ inv[i].pc = "health"
    /\ \E h \in {"ok", "notok", "unreachable"} :
         inv' = [inv EXCEPT ![i].health = h, ![i].pc = "post"]
    /\ LoginFrame

\* const body = { session_id, storage_state, api_map }
Body(i) == [run |-> i, session_id |-> inv[i].sid, storage_state |-> inv[i].sid,
            api_map |-> inv[i].apiMap]

\* fetch(`${EXPORT_SERVICE_URL}/trigger-fetch`, { method: 'POST', body }) and
\* the three ways doRun ends after it
postTrigger(i) ==
    /\ inv[i].pc = "post"
    /\ posts' = Append(posts, Body(i))
    /\ \/ Return(i, TRUE, "Run started", "json")
       \/ Return(i, FALSE, "Export trigger failed", "json")
       \/ Return(i, FALSE, "fetch failed", "none")
    /\ UNCHANGED restOfSched /\ UNCHANGED <<credsSet, usableDirs, started, nTrig, fs, clock, uuidCount, browsers, loginFailed>>

\* ------------------------------------------------- attachApiDiscovery
\* strings are sequences of one-character strings
Upper == <<"A", "B", "C", "D", "E", "F", "G", "H", "I", "J", "K", "L", "M", "N", "O", "P", "Q", "R", "S", "T", "U", "V", "W", "X", "Y", "Z">>
LowerOf == <<"a", "b", "c", "d", "e", "f", "g", "h", "i", "j", "k", "l", "m", "n", "o", "p", "q", "r", "s", "t", "u", "v", "w", "x", "y", "z">>

LowerTable == [c \in {Upper[u] : u \in 1..Len(Upper)} |->
                  LowerOf[CHOOSE u \in 1..Len(Upper) : Upper[u] = c]]

\* String.prototype.toLowerCase
ToLower(str) ==
    [k \in 1..Len(str) |->
        IF str[k] \in DOMAIN LowerTable THEN LowerTable[str[k]] ELSE str[k]]

\* sub occurs in str at position k
OccursAt(str, k, sub) ==
    k + Len(sub) - 1 <= Len(str) /\ SubSeq(str, k, k + Len(sub) - 1) = sub

\* String.prototype.includes
Includes(str, sub) == \E k \in 1..Len(str) : OccursAt(str, k, sub)

Min(S) == CHOOSE x \in S : \A y \in S : x <= y

\* str.match(/(a1|a2|...)/i)[0], or <<>> for null: the leftmost position where
\* an alternative matches, and there the first alternative that does
RegexMatchI(str, alts) ==
    LET low == ToLower(str)
        pos == {k \in 1..Len(str) : \E a \in 1..Len(alts) : OccursAt(low, k, alts[a])}
    IN  IF pos = {} THEN <<>>
        ELSE LET k == Min(pos)
                 a == Min({x \in 1..Len(alts) : OccursAt(low, k, alts[x])})
             IN SubSeq(str, k, k + Len(alts[a]) - 1)

\* /(todays|notstarted|draft|rejected|submitted|workinprogress|bgvclosed|inprogress)/i
TabNames ==
    << <<"t", "o", "d", "a", "y", "s">>,
       <<"n", "o", "t", "s", "t", "a", "r", "t", "e", "d">>,
       <<"d", "r", "a", "f", "t">>,
       <<"r", "e", "j", "e", "c", "t", "e", "d">>,
       <<"s", "u", "b", "m", "i", "t", "t", "e", "d">>,
       <<"w", "o", "r", "k", "i", "n", "p", "r", "o", "g", "r", "e", "s", "s">>,
       <<"b", "g", "v", "c", "l", "o", "s", "e", "d">>,
       <<"i", "n", "p", "r", "o", "g", "r", "e", "s", "s">> >>

\* url.includes('/api/') || url.includes('/Api/') || url.includes('/API/')
ApiMarkers == {<<"/", "a", "p", "i", "/">>, <<"/", "A", "p", "i", "/">>, <<"/", "A", "P", "I", "/">>}
isApiUrl(url) == \E m \in ApiMarkers : Includes(url, m)

KwExport == <<"e", "x", "p", "o", "r", "t">>
KwDownload == <<"d", "o", "w", "n", "l", "o", "a", "d">>
KwExcel == <<"e", "x", "c", "e", "l">>
KwCandidate == <<"c", "a", "n", "d", "i", "d", "a", "t", "e">>
KwCandidat == <<"c", "a", "n", "d", "i", "d", "a", "t">>
KwDocument == <<"d", "o", "c", "u", "m", "e", "n", "t">>
KwDoc == <<"d", "o", "c">>

Scheme == <<"h", "t", "t", "p", "s", ":", "/", "/">>

\* new URL(url): pathname runs from the first '/' after the host to the first
\* '?', search from that '?' to the end ('' when nothing follows the '?')
ParseUrl(url) ==
    LET slashes == {k \in (Len(Scheme) + 1)..Len(url) : url[k] = "/"}
        marks == {k \in (Len(Scheme) + 1)..Len(url) : url[k] = "?"}
        q == IF marks = {} THEN Len(url) + 1 ELSE Min(marks)
        from == {k \in slashes : k < q}
        pathname == IF from = {} THEN <<"/">> ELSE SubSeq(url, Min(from), q - 1)
        search == IF q >= Len(url) THEN <<>> ELSE SubSeq(url, q, Len(url))
    IN  [pathname |-> pathname, search |-> search]

\* const info = { url, method: request.method(), path: u.pathname, query: u.search }
InfoOf(req) ==
    [url |-> req.url, method |-> req.method,
     path |-> ParseUrl(req.url).pathname, query |-> ParseUrl(req.url).search]

\* lower.includes('export') || lower.includes('download') || lower.includes('excel')
isExport(lower) ==
    Includes(lower, KwExport) \/ Includes(lower, KwDownload) \/ Includes(lower, KwExcel)

\* lower.includes('candidate') || lower.includes('candidat')
isCandidate(lower) == Includes(lower, KwCandidate) \/ Includes(lower, KwCandidat)

\* lower.includes('document') || lower.includes('doc')
isDocument(lower) == Includes(lower, KwDocument) \/ Includes(lower, KwDoc)

\* mutant: the tab name is looked for in the path as sent, case and all
exportKey_CaseSensitive(info) ==
    LET pos == {k \in 1..Len(info.path) :
                  \E a \in 1..Len(TabNames) : OccursAt(info.path, k, TabNames[a])}
    IN  IF pos = {} THEN info.path
        ELSE LET k == Min(pos)
                 a == Min({x \in 1..Len(TabNames) : OccursAt(info.path, k, TabNames[x])})
             IN TabNames[a]

\* tabMatch ? tabMatch[0] : info.path, with tabMatch = lower.match(/(...)/i)
exportKey(info) ==
    LET tabMatch == RegexMatchI(ToLower(info.path), TabNames)
    IN  IF tabMatch # <<>> THEN tabMatch ELSE info.path

\* mutant: the candidate test comes first
classify_CandidateFirst(lower) ==
    IF isCandidate(lower) THEN "candidate"
    ELSE IF isExport(lower) THEN "export"
    ELSE IF isDocument(lower) THEN "document"
    ELSE "none"

\* the if / else if chain of the listener
classify(lower) ==
    IF isExport(lower) THEN "export"
    ELSE IF isCandidate(lower) THEN "candidate"
    ELSE IF isDocument(lower) THEN "document"
    ELSE "none"

\* mutant: a key that is already there keeps its first value
Put_KeepFirst(obj, key, value) ==
    [k \in DOMAIN obj \cup {key} |-> IF k \in DOMAIN obj THEN obj[k] ELSE value]

\* obj[key] = value
Put(obj, key, value) ==
    [k \in DOMAIN obj \cup {key} |-> IF k = key THEN value ELSE obj[k]]

\* mutant: an array push, which keeps a value that is already there
SetAdd_AppendAlways(set, x) == Append(set, x)

\* Set.prototype.add
SetAdd(set, x) == IF \E k \in 1..Len(set) : set[k] = x THEN set ELSE Append(set, x)

Origin == Scheme \o <<"p", "w", "c">>

\* the paths the page may request: a first segment after /api, then a tail
HeadSegs ==
    { <<"/", "e", "x", "p", "o", "r", "t">>,
      <<"/", "E", "x", "c", "e", "l">>,
      <<"/", "d", "o", "w", "n", "l", "o", "a", "d">>,
      <<"/", "c", "a", "n", "d", "i", "d", "a", "t", "e">>,
      <<"/", "c", "a", "n", "d", "i", "d", "a", "t", "u", "r", "e">>,
      <<"/", "d", "o", "c", "u", "m", "e", "n", "t">>,
      <<"/", "d", "o", "c", "s">>,
      <<"/", "u", "s", "e", "r", "s">> }
TailSegs ==
    { <<>>,
      <<"/", "D", "r", "a", "f", "t">>,
      <<"/", "1", "2", "3", "/", "e", "x", "p", "o", "r", "t">>,
      <<"/", "i", "n", "p", "r", "o", "g", "r", "e", "s", "s", "/", "t", "o", "d", "a", "y", "s">> }

Request(method, path, query) == [method |-> method, url |-> Origin \o path \o query]

Requests ==
    {Request("GET", <<"/", "a", "p", "i">> \o h \o t, <<>>) : h \in HeadSegs, t \in TailSegs}
    \cup {Request("GET", <<"/", "a", "p", "i", "/", "e", "x", "p", "o", "r", "t", "/", "w", "o", "r", "k", "i", "n", "p", "r", "o", "g", "r", "e", "s", "s">>, <<>>),
          Request("POST", <<"/", "a", "p", "i", "/", "e", "x", "p", "o", "r", "t", "/", "t", "o", "d", "a", "y", "s">>, <<"?", "p", "a", "g", "e", "=", "2">>),
          Request("GET", <<"/", "A", "P", "I", "/", "E", "x", "p", "o", "r", "t", "/", "R", "e", "j", "e", "c", "t", "e", "d">>, <<>>),
          Request("GET", <<"/", "v", "1", "/", "e", "x", "p", "o", "r", "t">>, <<"?", "n", "e", "x", "t", "=", "/", "a", "p", "i", "/">>),
          Request("GET", <<"/", "v", "1", "/", "e", "x", "p", "o", "r", "t">>, <<>>),
          Request("POST", <<"/", "a", "p", "i", "/", "c", "a", "n", "d", "i", "d", "a", "t", "e">>, <<>>),
          Request("GET", <<"/", "a", "p", "i", "/", "d", "o", "c", "s">>, <<"?", "v", "=", "2">>),
          Request("GET", <<"/", "l", "o", "g", "i", "n">>, <<>>)}

\* the state attachApiDiscovery sets up
ObsFresh ==
    /\ apiRequests = <<>>
    /\ exportEndpoints = <<>>
    /\ candidateEndpoints = <<>>
    /\ documentEndpoints = <<>>
    /\ nReq = 0
    /\ lastReq = Request("none", <<>>, <<>>)
    /\ observed = <<>>
    /\ saved = [writes |-> 0, seen |-> 0, endpoints |-> <<>>, exportEndpoints |-> <<>>,
                candidateEndpoints |-> <<>>, documentEndpoints |-> <<>>]

\* page.on('request', (request) => { ... })
onRequest(req) ==
    /\ nReq < MaxRequests
    /\ nReq' = nReq + 1
    /\ lastReq' = req
    /\ observed' = Append(observed, req)
    /\ IF isApiUrl(req.url)
       THEN LET info == InfoOf(req)
                lower == ToLower(info.path)
                group == classify(lower)
            IN  /\ apiRequests' = SetAdd(apiRequests, info)
                /\ exportEndpoints' =
                     IF group = "export" THEN Put(exportEndpoints, exportKey(info), info)
                     ELSE exportEndpoints
                /\ candidateEndpoints' =
                     IF group = "candidate" THEN Put(candidateEndpoints, info.path, info)
                     ELSE candidateEndpoints
                /\ documentEndpoints' =
                     IF group = "document" THEN Put(documentEndpoints, info.path, info)
                     ELSE documentEndpoints
       ELSE UNCHANGED <<apiRequests, exportEndpoints, candidateEndpoints, documentEndpoints>>
    /\ UNCHANGED saved
    /\ UNCHANGED restOfObs

\* saveApiMap: endpoints = Array.from(apiRequests).map(JSON.parse); writeFile
saveApiMap ==
    /\ saved.writes = 0
    /\ saved' = [writes |-> saved.writes + 1, seen |-> nReq, endpoints |-> apiRequests,
                 exportEndpoints |-> exportEndpoints,
                 candidateEndpoints |-> candidateEndpoints,
                 documentEndpoints |-> documentEndpoints]
    /\ UNCHANGED <<apiRequests, exportEndpoints, candidateEndpoints, documentEndpoints,
                   nReq, lastReq, observed>>
    /\ UNCHANGED restOfObs

\* ------------------------------------------------------------ getGmailOtp
ErrGmailCreds == "Missing Gmail API credentials (GMAIL_CLIENT_ID, GMAIL_CLIENT_SECRET, GMAIL_REFRESH_TOKEN)"
ErrNoOtpMail == "No OTP email found in last 10 minutes"
ErrNoOtpCode == "OTP code not found in email body (expected 6-digit code)"

Digits == {"0", "1", "2", "3", "4", "5", "6", "7", "8", "9"}

\* \d
IsDigit(c) == c \in Digits

\* \w : [A-Za-z0-9_]
IsWord(c) ==
    \/ c \in Digits
    \/ \E u \in 1..Len(Upper) : c = Upper[u] \/ c = LowerOf[u]
    \/ c = "_"

\* the character at position k is a word character; none is outside the text
WordAt(text, k) == k \in 1..Len(text) /\ IsWord(text[k])

\* \b just before position k: a word character on exactly one side
Boundary(text, k) == WordAt(text, k - 1) # WordAt(text, k)

\* the 6 of \d{6}
OtpDigits == 6

\* mutant: the pattern has lost its word boundaries, /(\d{6})/
MatchAt_NoBoundary(text, k) ==
    /\ k + OtpDigits - 1 <= Len(text)
    /\ \A j \in k..(k + OtpDigits - 1) : IsDigit(text[j])

\* /\b(\d{6})\b/ matches with its first digit at position k
MatchAt(text, k) ==
    /\ Boundary(text, k)
    /\ k + OtpDigits - 1 <= Len(text)
    /\ \A j \in k..(k + OtpDigits - 1) : IsDigit(text[j])
    /\ Boundary(text, k + OtpDigits)

\* text.match(/\b(\d{6})\b/): m[1] of the leftmost match, <<>> for null
OtpMatch(text) ==
    LET pos == {k \in 1..Len(text) : MatchAt(text, k)}
    IN  IF pos = {} THEN <<>> ELSE SubSeq(text, Min(pos), Min(pos) + OtpDigits - 1)

\* a MIME part: body.data already base64-decoded (<<>> when absent), and parts
Part(data, parts) == [nil |-> FALSE, data |-> data, parts |-> parts]
\* full.data.payload missing
NoPayload == [nil |-> TRUE, data |-> <<>>, parts |-> <<>>]

RECURSIVE Walk(_, _)
\* const stack = [payload]; while (stack.length) { const p = stack.pop(); ... }
Walk(stack, parts) ==
    IF stack = <<>> THEN parts
    ELSE LET p == stack[Len(stack)]
             rest == SubSeq(stack, 1, Len(stack) - 1)
         IN  IF p.nil THEN Walk(rest, parts)
             ELSE Walk(rest \o p.parts,
                       IF p.data # <<>> THEN Append(parts, p.data) ELSE parts)

RECURSIVE Join(_)
\* parts.join('\n')
Join(parts) ==
    IF parts = <<>> THEN <<>>
    ELSE IF Len(parts) = 1 THEN parts[1]
    ELSE parts[1] \o <<"\n">> \o Join(Tail(parts))

\* const text = parts.join('\n'), parts = [snippet || '', ...the decoded bodies]
MailText(mail) == Join(Walk(<<mail.payload>>, <<mail.snippet>>))

Got(code) == [state |-> "code", code |-> code, error |-> ""]
Threw(msg) == [state |-> "error", code |-> <<>>, error |-> msg]
NotCalled == [state |-> "none", code |-> <<>>, error |-> ""]

\* the whole of getGmailOtp()
getGmailOtp ==
    /\ otpOut = NotCalled
    /\ otpOut' =
         IF ~gmail.creds THEN Threw(ErrGmailCreds)
         ELSE IF ~gmail.found THEN Threw(ErrNoOtpMail)
         ELSE LET m == OtpMatch(MailText(gmail.mail))
              IN  IF m = <<>> THEN Threw(ErrNoOtpCode) ELSE Got(m)
    /\ UNCHANGED gmail
    /\ UNCHANGED restOfOtp

\* the mails the newest OTP message may be
\* "Your code is 482913 today"
TxtCodeToday == <<"Y", "o", "u", "r", " ", "c", "o", "d", "e", " ", "i", "s", " ", "4", "8", "2", "9", "1", "3", " ", "t", "o", "d", "a", "y">>
\* "482913 739105"
TxtTwoCodes == <<"4", "8", "2", "9", "1", "3", " ", "7", "3", "9", "1", "0", "5">>
\* "1234567"
TxtSevenDigits == <<"1", "2", "3", "4", "5", "6", "7">>
\* "x482913"
TxtLetterBefore == <<"x", "4", "8", "2", "9", "1", "3">>
\* "482913_"
TxtUnderscoreAfter == <<"4", "8", "2", "9", "1", "3", "_">>
\* "12345"
TxtFiveDigits == <<"1", "2", "3", "4", "5">>
\* "(739105)"
TxtParens == <<"(", "7", "3", "9", "1", "0", "5", ")">>
\* "ref 1234567, code 739105."
TxtLongThenCode == <<"r", "e", "f", " ", "1", "2", "3", "4", "5", "6", "7", ",", " ", "c", "o", "d", "e", " ", "7", "3", "9", "1", "0", "5", ".">>
\* "913"
TxtThreeDigits == <<"9", "1", "3">>
\* "Code 739105"
TxtSnippetCode == <<"C", "o", "d", "e", " ", "7", "3", "9", "1", "0", "5">>
\* "482"
TxtSnippetHead == <<"4", "8", "2">>
\* "hello"
TxtHello == <<"h", "e", "l", "l", "o">>

Snippets == {<<>>, TxtSnippetCode, TxtSnippetHead, TxtHello}
Bodies ==
    {TxtCodeToday, TxtTwoCodes, TxtSevenDigits, TxtLetterBefore, TxtUnderscoreAfter,
     TxtFiveDigits, TxtParens, TxtLongThenCode, TxtThreeDigits}

\* multipart/alternative inside a multipart/mixed
NestedPart == Part(<<>>, <<Part(TxtFiveDigits, <<>>), Part(TxtParens, <<>>)>>)

Children == {Part(b, <<>>) : b \in Bodies} \cup {NestedPart}

ChildSeqs == UNION {[1..n -> Children] : n \in 0..MaxParts}

Payloads ==
    {NoPayload}
    \cup {Part(b, <<>>) : b \in Bodies}
    \cup {Part(<<>>, cs) : cs \in ChildSeqs}

Mails == [snippet : Snippets, payload : Payloads]

NoMail == [snippet |-> <<>>, payload |-> NoPayload]

\* no call of getGmailOtp is being looked at
OtpQuiet ==
    /\ gmail = [creds |-> TRUE, found |-> FALSE, mail |-> NoMail]
    /\ otpOut = NotCalled


\* ------------------------------------------------------ Fetch Orchestrator
\* (spec 4.3 and 5: bounded worker pool for candidates, documents of one
\* candidate strictly one after the other, a failed candidate does not abort
\* the batch)
Candidates == 1..MaxCandidates

Waiting == [st |-> "pending", nDocs |-> 0, got |-> 0, downloading |-> {}]

\* the candidates a worker is processing
InFlight == {c \in Candidates : cand[c].st \in {"profile", "docs"}}
Pending == {c \in Candidates : cand[c].st = "pending"}

\* mutant: no pool, every candidate is started at once
PoolHasRoom_Unbounded == TRUE

\* a worker of the pool is free
PoolHasRoom == Cardinality(InFlight) < maxConcurrent

\* the next candidate, in export order, is handed to a free worker
Dispatch(c) ==
    /\ c \in Pending
    /\ \A d \in Pending : c <= d
    /\ PoolHasRoom
    /\ cand' = [cand EXCEPT ![c].st = "profile"]
    /\ UNCHANGED maxConcurrent
    /\ UNCHANGED restOfFetch

\* profile fields and the list of documents: API first, browser fallback;
\* when both fail the failure is recorded and the worker is free again
FetchProfile(c) ==
    /\ cand[c].st = "profile"
    /\ \/ \E n \in 0..MaxDocs : cand' = [cand EXCEPT ![c].st = "docs", ![c].nDocs = n]
       \/ cand' = [cand EXCEPT ![c].st = "failed"]
    /\ UNCHANGED maxConcurrent
    /\ UNCHANGED restOfFetch

\* the download of the candidate's next document begins, the one before it
\* being over
StartDoc(c) ==
    /\ cand[c].st = "docs"
    /\ cand[c].got < cand[c].nDocs
    /\ cand[c].downloading = {}
    /\ cand' = [cand EXCEPT ![c].downloading = {cand[c].got + 1}]
    /\ UNCHANGED maxConcurrent
    /\ UNCHANGED restOfFetch

\* a download ends (stored, or its failure recorded)
EndDoc(c) ==
    /\ cand[c].st = "docs"
    /\ \E d \in cand[c].downloading :
         cand' = [cand EXCEPT ![c].downloading = @ \ {d}, ![c].got = @ + 1]
    /\ UNCHANGED maxConcurrent
    /\ UNCHANGED restOfFetch

\* all documents are through: the candidate is done and its worker is free;
\* what is kept of it is that it is done
FinishCandidate(c) ==
    /\ cand[c].st = "docs"
    /\ cand[c].got = cand[c].nDocs
    /\ cand[c].downloading = {}
    /\ cand' = [cand EXCEPT ![c] = [Waiting EXCEPT !.st = "done"]]
    /\ UNCHANGED maxConcurrent
    /\ UNCHANGED restOfFetch

\* no batch is being fetched
FetchQuiet ==
    /\ maxConcurrent = 1
    /\ cand = [c \in Candidates |-> Waiting]

\* ------------------------------------------------------ Sync/Audit Writer
\* (spec 4.5: key-based incremental merge, insert if the identifier is new,
\* update if it exists, unrelated rows stay; then one audit row is appended)
Row(id, val) == [id |-> id, val |-> val]

\* the sheet has a row with this identifier
HasId(rows, id) == \E k \in 1..Len(rows) : rows[k].id = id

\* mutant: full append, the row goes to the bottom whether or not its
\* identifier is there already
Upsert_AppendAlways(rows, row) == Append(rows, row)

\* insert if new identifier, update if existing
Upsert(rows, row) ==
    IF HasId(rows, row.id)
    THEN [k \in 1..Len(rows) |-> IF rows[k].id = row.id THEN row ELSE rows[k]]
    ELSE Append(rows, row)

RECURSIVE MergeRows(_, _)
\* the new rows are merged one by one, in the order given
MergeRows(rows, new) ==
    IF new = <<>> THEN rows
    ELSE MergeRows(Upsert(rows, Head(new)), Tail(new))

\* the audit row of one merge: counts added/updated and the source run
AuditEntry(rows, new, run) ==
    [added |-> Cardinality({k \in 1..Len(new) : ~HasId(rows, new[k].id)}),
     updated |-> Cardinality({k \in 1..Len(new) : HasId(rows, new[k].id)}),
     run |-> run]

\* one merge, a single read-modify-append transaction
Merge(new) ==
    /\ nMerges < MaxMerges
    /\ sheet' = MergeRows(sheet, new)
    /\ audit' = Append(audit, AuditEntry(sheet, new, nMerges + 1))
    /\ lastRows' = new
    /\ nMerges' = nMerges + 1
    /\ UNCHANGED restOfSync

Ids == 1..MaxIds
Vals == {"v1", "v2"}

RECURSIVE RowsOf(_, _)
\* the rows f gives the identifiers of S, in ascending order
RowsOf(S, f) ==
    IF S = {} THEN <<>>
    ELSE LET m == Min(S) IN <<Row(m, f[m])>> \o RowsOf(S \ {m}, f)

\* the candidate row sets a fetch may hand over: one row per identifier
RowSets == UNION {{RowsOf(S, f) : f \in [S -> Vals]} : S \in SUBSET Ids}

\* an identifier no fetch brings: the row of an earlier, unrelated candidate
OldId == 0

\* no sheet is being written
SyncQuiet ==
    /\ sheet = <<>>
    /\ audit = <<>>
    /\ lastRows = <<>>
    /\ nMerges = 0

\* ------------------------------------------------------------------ claims
PostsOf(i) == {k \in 1..Len(posts) : posts[k].run = i}

\* C1: under any interleaving of the startup, interval and manual triggers, at
\* most one invocation of doRun is between taking runLock and releasing it.
C1_AtMostOneRun == Cardinality(Active) <= 1

\* a trigger arrived while invocation i was running, and i still runs alone
C1_Witness ==
    \E i \in Slots : inv[i].pc = "verify" /\ last.id > i /\ last.message = "Run in progress"

\* C2: a trigger arriving while a run is active is answered at once with
\* {ok: false, message: 'Run in progress'} and changes nothing else: no
\* rotation, no browser, no POST, runLock still held; and an invocation that
\* has returned never runs again (nothing is queued or retried).
C2_RejectedTriggerHasNoEffect ==
    [][ /\ (nTrig' = nTrig + 1 /\ Active # {}) =>
             /\ runLock /\ runLock'
             /\ last'.id = nTrig' /\ ~last'.ok /\ last'.message = "Run in progress"
             /\ last'.result = "none"
             /\ UNCHANGED <<inv, fs, clock, uuidCount, browsers, posts, loginFailed>>
        /\ \A k \in 1..nTrig : inv[k].pc = "idle" => inv'[k].pc = "idle"
      ]_vars

C2_Witness ==
    /\ last.message = "Run in progress" /\ runLock /\ posts = <<>>
    /\ \E i \in Slots : inv[i].pc = "health" /\ last.id > i

LoginErrors ==
    {ErrMissingCreds, ErrLaunch, ErrTmpDir, ErrGoto, ErrEmail, ErrPassword, ErrSubmit,
     ErrMfa, ErrOtpField, ErrOtpFetch, ErrOtpNull, ErrOtpFill, ErrOtpSubmit, ErrSettle,
     ErrUnverified, ErrDashboard, ErrSaveState, ErrSaveMap}

\* C3: when a step of loginAndDiscover fails the run is over: it never POSTs
\* to /trigger-fetch, takes no further login step, and doRun returns
\* {ok: false, message: <the error's message>}.
C3_LoginFailureIsTerminal ==
    /\ [](\A i \in Slots :
            /\ inv[i].err # "" => inv[i].pc = "finally" /\ PostsOf(i) = {}
            /\ i \in loginFailed =>
                 /\ inv[i].pc = "idle" /\ PostsOf(i) = {}
                 /\ last.id = i => ~last.ok /\ last.message \in LoginErrors)
    /\ [][\A i \in Slots :
            (inv[i].err # "" /\ inv'[i] # inv[i]) =>
                /\ inv'[i].pc = "idle"
                /\ last' = Returned(i, inv[i].src, FALSE, inv[i].err, "none")]_vars

C3_Witness ==
    \E i \in loginFailed : last.id = i /\ last.message = ErrOtpSubmit /\ posts = <<>>

\* C4: every body posted to /trigger-fetch carries the session id and storage
\* state of its own run, and its api_map is the map written under that session
\* id or null, never the map of another session.
C4_BodyFromSameRun ==
    \A k \in 1..Len(posts) :
        /\ posts[k].storage_state = posts[k].session_id
        /\ posts[k].api_map \in {0, posts[k].session_id}
        /\ \A j \in 1..Len(posts) : j # k => posts[j].session_id # posts[k].session_id

\* a run posted its own map while maps of earlier sessions lie beside it
C4_Witness ==
    \E k \in 1..Len(posts) :
        /\ posts[k].api_map = posts[k].session_id
        /\ \E f \in fs : f.name.kind = "pwc_api_map" /\ f.name.id # posts[k].session_id

\* the session-state files: what loginAndDiscover writes at getSessionPath
SessionFiles(F) == {f \in F : f.name.kind = "session"}

\* C5: the rotation at the start of a run keeps exactly the 3 most recently
\* modified session-state files and deletes the older ones (of 5, the 3 newest
\* remain).
C5_RotationKeepsThreeNewest ==
    [][\A i \in Slots :
          (inv[i].pc = "rotate" /\ inv'[i].pc = "login"
             /\ Cardinality(SessionFiles(fs)) > KeepCount) =>
          SessionFiles(fs') =
            {f \in SessionFiles(fs) :
               Cardinality({g \in SessionFiles(fs) : g.mtime > f.mtime}) < KeepCount}]_vars

\* the state of the login attempt an invocation is in
LoginState(r) ==
    CASE r.pc \in {"login", "goto", "email", "next", "password", "submit"} -> "NotStarted"
      [] r.pc \in {"mfaPrompt", "mfaFind", "mfaPoll", "mfaJs", "mfaWait"} -> "CredentialsSubmitted"
      [] r.pc = "findOtp" -> "MfaChannelSelected"
      [] r.pc \in {"getOtp", "backoff", "fillOtp", "submitOtp"} -> "OtpAwaited"
      [] r.pc \in {"settle", "verify"} -> "OtpSubmitted"
      [] r.pc \in {"dashboard", "saveState", "saveMap"} -> "Verified"
      [] r.pc = "finally" -> IF r.err = "" THEN "Verified" ELSE "Failed"
      [] OTHER -> "None"

LoginOrder ==
    <<"NotStarted", "CredentialsSubmitted", "MfaChannelSelected", "OtpAwaited",
      "OtpSubmitted", "Verified">>

Rank(st) == CHOOSE k \in 1..Len(LoginOrder) : LoginOrder[k] = st

\* C6: a login attempt moves NotStarted -> CredentialsSubmitted ->
\* MfaChannelSelected -> OtpAwaited -> OtpSubmitted -> Verified one state at a
\* time, never back; Verified is reached only with an OTP retrieved, filled
\* and submitted; a failure leads to Failed, after which no login step is taken.
C6_LoginStateOrder ==
    /\ [](\A i \in Slots :
            /\ LoginState(inv[i]) = "Verified" =>
                 inv[i].otp = "code" /\ inv[i].filled /\ inv[i].submitted
            /\ LoginState(inv[i]) = "OtpSubmitted" =>
                 inv[i].otp = "code" /\ inv[i].filled /\ inv[i].submitted)
    /\ [][\A i \in Slots :
            LET a == LoginState(inv[i])
                b == LoginState(inv'[i])
            IN  (a # "None" /\ inv'[i] # inv[i]) =>
                  IF a = "Failed" THEN inv'[i].pc = "idle" /\ ~last'.ok
                  ELSE IF inv'[i].pc = "idle" THEN a = "NotStarted" /\ ~last'.ok
                  ELSE IF b = "None" THEN a = "Verified"
                  ELSE \/ b = "Failed"
                       \/ Rank(b) = Rank(a)
                       \/ Rank(b) = Rank(a) + 1]_vars

C6_Witness ==
    \E i \in Slots : inv[i].pc = "saveMap" /\ inv[i].otpCalls = 2 /\ inv[i].submitted

\* C7 as stated: after OTP submission the login is Verified when any one of
\* the four signals holds (URL, authenticated-only element, auth-looking
\* cookie, logged-in looking body text) and LoginUnverified only when none does.
C7_AnySignalVerifies ==
    \A i \in Slots :
        (inv[i].pc = "dashboard" \/ inv[i].err = ErrUnverified) =>
            ((inv[i].pc = "dashboard") <=>
                (inv[i].ev.url \/ inv[i].ev.elem \/ inv[i].ev.cookie \/ inv[i].ev.body))

\* C7 amended: the login is Verified exactly when an authenticated-only element
\* is visible, or an auth-looking cookie is present, or the URL matches AND the
\* body text looks logged in; a URL match alone, or logged-in looking text
\* without a URL match, fails as LoginUnverified.
C7_VerifiedIffElementCookieOrUrlAndBody ==
    \A i \in Slots :
        (inv[i].pc = "dashboard" \/ inv[i].err = ErrUnverified) =>
            ((inv[i].pc = "dashboard") <=>
                (inv[i].ev.elem \/ inv[i].ev.cookie \/ (inv[i].ev.url /\ inv[i].ev.body)))

\* the URL matched, nothing else did, and the login failed as unverified
C7_Witness ==
    \E i \in Slots :
        /\ inv[i].err = ErrUnverified
        /\ inv[i].ev = [elem |-> FALSE, cookie |-> FALSE, url |-> TRUE, body |-> FALSE]

\* C8: one login attempt calls getGmailOtp at most 3 times, stops at the first
\* success, sleeps 5 s between consecutive attempts and not after the third
\* failure, and when all 3 fail it fails with the OTP-retrieval error without
\* filling or submitting the OTP field.
C8_OtpRetryBudget ==
    \A i \in Slots :
        LET r == inv[i] IN
        /\ r.otpCalls <= OtpAttempts
        /\ r.pc = "getOtp" => r.backoffs = r.otpCalls
        /\ (r.pc # "getOtp" /\ r.otpCalls > 0) => r.backoffs = r.otpCalls - 1
        /\ r.otp = "code" => r.pc \notin {"getOtp", "backoff"}
        /\ r.otp = "null" => ~r.filled /\ ~r.submitted
        /\ r.err = ErrOtpFetch =>
             r.otpCalls = OtpAttempts /\ r.backoffs = OtpAttempts - 1 /\ r.otp = "null"
        /\ r.err # ErrOtpNull
        /\ (r.pc = "finally" /\ r.otp = "null" /\ r.otpCalls = OtpAttempts) => r.err = ErrOtpFetch

C8_Witness ==
    \E i \in Slots : inv[i].err = ErrOtpFetch /\ inv[i].otpCalls = OtpAttempts


\* the record of the request the listener saw last
LastInfo == InfoOf(lastReq)
LastLower == ToLower(LastInfo.path)

InGroup(group, info) == \E k \in DOMAIN group : group[k] = info

\* the tab name whose first occurrence in the path, letter case aside, is the
\* leftmost one; <<>> when the path holds none
FirstTabToken(path) ==
    LET low == ToLower(path)
        present == {a \in 1..Len(TabNames) : Includes(low, TabNames[a])}
        FirstPos(a) == Min({k \in 1..Len(low) : OccursAt(low, k, TabNames[a])})
    IN  IF present = {} THEN <<>>
        ELSE TabNames[CHOOSE a \in present :
                        \A b \in present :
                            \/ FirstPos(a) < FirstPos(b)
                            \/ FirstPos(a) = FirstPos(b) /\ a <= b]

HasExportWord(low) ==
    Includes(low, KwExport) \/ Includes(low, KwDownload) \/ Includes(low, KwExcel)

\* C9: every observed API request whose path contains export, download or
\* excel (in any letter case) has its record in exportEndpoints, under the
\* first tab name occurring in the path (matched case-insensitively), or under
\* the raw path when no tab name occurs.
C9_ExportKeyedByTabOrPath ==
    (nReq > 0 /\ isApiUrl(lastReq.url) /\ HasExportWord(LastLower)) =>
        LET tab == FirstTabToken(LastInfo.path)
            key == IF tab # <<>> THEN tab ELSE LastInfo.path
        IN  /\ key \in DOMAIN exportEndpoints
            /\ exportEndpoints[key] = LastInfo
            /\ LastInfo.url = lastReq.url /\ LastInfo.method = lastReq.method

\* /api/Excel/Draft was seen and sits under the key draft
C9_Witness ==
    /\ lastReq = Request("GET", <<"/", "a", "p", "i", "/", "E", "x", "c", "e", "l", "/", "D", "r", "a", "f", "t">>, <<>>)
    /\ <<"d", "r", "a", "f", "t">> \in DOMAIN exportEndpoints

\* what C10 says about the request seen last, with the candidate and document
\* words passed in
C10_Shape(candWords, docWords) ==
    LET hasE == HasExportWord(LastLower)
        hasC == \E w \in candWords : Includes(LastLower, w)
        hasD == \E w \in docWords : Includes(LastLower, w)
        inE == InGroup(exportEndpoints, LastInfo)
        inC == InGroup(candidateEndpoints, LastInfo)
        inD == InGroup(documentEndpoints, LastInfo)
    IN  /\ (nReq > 0 /\ isApiUrl(lastReq.url)) =>
             /\ hasE => inE /\ ~inC /\ ~inD
             /\ (~hasE /\ hasC) =>
                  /\ ~inE /\ inC /\ ~inD
                  /\ LastInfo.path \in DOMAIN candidateEndpoints
                  /\ candidateEndpoints[LastInfo.path] = LastInfo
             /\ (~hasE /\ ~hasC /\ hasD) =>
                  /\ ~inE /\ ~inC /\ inD
                  /\ LastInfo.path \in DOMAIN documentEndpoints
                  /\ documentEndpoints[LastInfo.path] = LastInfo
             /\ (~hasE /\ ~hasC /\ ~hasD) => ~inE /\ ~inC /\ ~inD
        /\ ~isApiUrl(lastReq.url) => ~inE /\ ~inC /\ ~inD
        /\ \A k \in DOMAIN candidateEndpoints :
             k = candidateEndpoints[k].path /\ ~HasExportWord(ToLower(k))
        /\ \A k \in DOMAIN documentEndpoints :
             k = documentEndpoints[k].path /\ ~HasExportWord(ToLower(k))

\* C10 as stated: first match wins in the order export > candidate > document;
\* a request joins at most one group; candidate plus export goes to export;
\* only `candidate` goes to candidateEndpoints by path; only `document`/`doc`
\* goes to documentEndpoints by path; a path with none of these words joins
\* no group.
C10_FirstMatchWins == C10_Shape({KwCandidate}, {KwDocument, KwDoc})

\* C10 amended: the same, with the candidate word being `candidat` (so
\* /api/candidature joins candidateEndpoints too).
C10_FirstMatchWinsCandidat == C10_Shape({KwCandidate, KwCandidat}, {KwDocument, KwDoc})

\* /api/candidate/123/export was seen: it sits in the export group under its
\* raw path and the candidate group is empty
C10_Witness ==
    /\ lastReq = Request("GET", <<"/", "a", "p", "i", "/", "c", "a", "n", "d", "i", "d", "a", "t", "e", "/", "1", "2", "3", "/", "e", "x", "p", "o", "r", "t">>, <<>>)
    /\ <<"/", "a", "p", "i", "/", "c", "a", "n", "d", "i", "d", "a", "t", "e", "/", "1", "2", "3", "/", "e", "x", "p", "o", "r", "t">> \in DOMAIN exportEndpoints
    /\ DOMAIN candidateEndpoints = {}

\* the text of the mail the call looked at
OtpText == MailText(gmail.mail)

Max(S) == CHOOSE x \in S : \A y \in S : y <= x

\* where the maximal runs of digits start, and the length of the run from there
RunStarts(text) ==
    {k \in 1..Len(text) : IsDigit(text[k]) /\ (k = 1 \/ ~IsDigit(text[k - 1]))}
RunLen(text, k) ==
    Max({n \in 1..(Len(text) - k + 1) : \A j \in k..(k + n - 1) : IsDigit(text[j])})

\* the starts of the standalone 6-digit numbers: a run of exactly six digits
\* with no letter or underscore right before or after it
Standalone(text) ==
    {k \in RunStarts(text) :
        /\ RunLen(text, k) = 6
        /\ (k = 1 \/ ~IsWord(text[k - 1]))
        /\ (k + 6 > Len(text) \/ ~IsWord(text[k + 6]))}

\* C11: getGmailOtp returns the first standalone 6-digit number of the text
\* (snippet, then the decoded bodies, joined by newlines): "Your code is 482913
\* today" gives 482913, of two codes the first one, a longer run of digits is
\* never cut down to a code, and a text without a standalone 6-digit number
\* gives the error and no code.
C11_FirstStandaloneSixDigits ==
    (otpOut # NotCalled /\ gmail.creds /\ gmail.found) =>
        LET text == OtpText
            at == Standalone(text)
        IN  /\ IF at = {}
               THEN otpOut = Threw(ErrNoOtpCode)
               ELSE otpOut = Got(SubSeq(text, Min(at), Min(at) + 5))
            /\ otpOut.state = "code" =>
                 /\ Len(otpOut.code) = 6
                 /\ \A j \in 1..6 : IsDigit(otpOut.code[j])
                 /\ \E k \in RunStarts(text) :
                      RunLen(text, k) = 6 /\ SubSeq(text, k, k + 5) = otpOut.code
            /\ gmail.mail = [snippet |-> <<>>, payload |-> Part(TxtCodeToday, <<>>)] =>
                 otpOut = Got(<<"4", "8", "2", "9", "1", "3">>)
            /\ gmail.mail = [snippet |-> <<>>, payload |-> Part(TxtTwoCodes, <<>>)] =>
                 otpOut = Got(<<"4", "8", "2", "9", "1", "3">>)
            /\ gmail.mail = [snippet |-> <<>>, payload |-> Part(TxtSevenDigits, <<>>)] =>
                 otpOut = Threw(ErrNoOtpCode)

\* a 7-digit reference number came before the code, and the code was returned
C11_Witness ==
    /\ gmail.found
    /\ gmail.mail = [snippet |-> <<>>, payload |-> Part(TxtLongThenCode, <<>>)]
    /\ otpOut = Got(<<"7", "3", "9", "1", "0", "5">>)


\* the terminal failures of the login flow C12 lists
ListedLoginFailures ==
    {ErrEmail, ErrPassword, ErrSubmit, ErrMfa, ErrOtpField, ErrOtpFetch, ErrOtpSubmit,
     ErrUnverified}

\* C12: every terminal failure of the login flow (credential field not found,
\* submit button not found, MFA selection failed, OTP field not found, OTP
\* retrieval failed, OTP submit failed, login unverified) has taken a
\* diagnostic screenshot by the time the error is raised.
C12_EveryLoginFailureHasScreenshot ==
    \A i \in Slots : inv[i].err \in ListedLoginFailures => inv[i].shot


\* the send-code control was found, stayed disabled for all its polls, and no
\* control was clicked through its locator
NeverEnabled(r) == r.starved /\ ~r.clicked

\* C13: CredentialsSubmitted -> MfaChannelSelected fails with the MFA-selection
\* error whenever the prompt does not appear or the send-code control does not
\* become enabled within its 10 polls: a control still disabled after its
\* polls is never clicked, and the login does not go on to the OTP step.
C13_DisabledControlFailsMfa ==
    /\ [](\A i \in Slots : inv[i].polls < MaxPolls)
    /\ [][\A i \in Slots :
            /\ (inv[i].pc = "mfaPrompt" /\ inv'[i].pc # "mfaFind" /\ inv'[i] # inv[i]) =>
                 inv'[i].pc = "finally" /\ inv'[i].err = ErrMfa
            /\ (inv[i].pc = "mfaJs" /\ NeverEnabled(inv[i]) /\ inv'[i] # inv[i]) =>
                 inv'[i].pc = "finally" /\ inv'[i].err = ErrMfa
            /\ (NeverEnabled(inv[i]) /\ inv'[i] # inv[i]) => inv'[i].pc # "findOtp"]_vars


\* the endpoint-map files
MapFiles(F) == {f \in F : f.name.kind = "pwc_api_map"}

\* C14: no two discovery runs write their endpoint map to the same path: the
\* path carries the run's session id, every run has a session id of its own,
\* and so a run never overwrites the map another run persisted.
C14_MapPathPerRun ==
    /\ [](/\ \A f \in MapFiles(fs) : f.content = f.name.id
          /\ \A f, g \in MapFiles(fs) : (f.dir = g.dir /\ f.name = g.name) => f = g
          /\ \A i, j \in Active :
               (i # j /\ inv[i].sid # 0 /\ inv[j].sid # 0) => inv[i].sid # inv[j].sid
          /\ \A i \in Active : \A f \in MapFiles(fs) :
               (inv[i].pc \in {"goto", "email", "next", "password", "submit", "mfaPrompt",
                               "mfaFind", "mfaPoll", "mfaJs", "mfaWait", "findOtp", "getOtp",
                               "backoff", "fillOtp", "submitOtp", "settle", "verify",
                               "dashboard", "saveState", "saveMap"})
               => f.name.id # inv[i].sid)
    /\ [][\A i \in Slots :
            (inv[i].pc = "saveMap" /\ inv'[i].pc = "finally" /\ inv'[i].err = "") =>
               /\ MapFiles(fs) \subseteq MapFiles(fs')
               /\ \E f \in MapFiles(fs') \ MapFiles(fs) :
                    /\ MapFiles(fs') = MapFiles(fs) \cup {f}
                    /\ f.dir = inv[i].dir /\ f.name = ApiMapName(inv[i].sid)
                    /\ f.content = inv[i].sid]_vars

\* two runs of this process have each written a map, side by side
C14_Witness ==
    /\ Len(posts) = 2
    /\ \E f, g \in MapFiles(fs) :
         /\ f.dir = g.dir
         /\ f.name.id = posts[1].session_id /\ g.name.id = posts[2].session_id
         /\ f # g


\* C15: POST /login-and-run always answers with a body holding ok and message;
\* the status is 200 exactly when ok is true (login, discovery and the POST to
\* /trigger-fetch all succeeded, and result is the export service's reply) and
\* 500 otherwise, a trigger rejected as 'Run in progress' and a non-2xx reply
\* of /trigger-fetch included.
C15_StatusFollowsOk ==
    /\ [](last.src = "manual" =>
            /\ last.message # "" /\ last.ok \in BOOLEAN
            /\ last.status = 200 <=> last.ok
            /\ last.status = 500 <=> ~last.ok
            /\ last.ok =>
                 /\ last.message = "Run started" /\ last.result = "json"
                 /\ last.id \notin loginFailed
                 /\ \E k \in PostsOf(last.id) :
                      /\ k = Len(posts)
                      /\ \E f \in SessionFiles(fs) : f.name.id = posts[k].session_id
            /\ last.message \in {"Run in progress", "Export trigger failed"} =>
                 last.status = 500 /\ last.result = "none")
    /\ [][\A i \in Slots :
            (inv[i].src = "manual" /\ inv[i].pc # "idle" /\ inv'[i].pc = "idle") =>
               /\ last'.id = i /\ last'.src = "manual" /\ last'.status \in {200, 500}
               /\ (inv[i].pc = "post") = (Len(posts') = Len(posts) + 1)
               /\ last'.ok => inv[i].pc = "post"]_vars

\* a manual trigger ran to the end and was answered 200 with the reply
C15_Witness ==
    /\ last.src = "manual" /\ last.ok /\ last.status = 200 /\ last.result = "json"
    /\ PostsOf(last.id) # {}


\* the KeepCount most recently written files of F
Newest(F) == {f \in F : Cardinality({g \in F : g.mtime > f.mtime}) < KeepCount}

\* C16: after the rotation step of any run, whatever runs came before, at most
\* 3 session-state files and at most 3 endpoint-map files remain on disk, and
\* they are the most recently written ones of each kind.
C16_RetentionOfBothArtefacts ==
    [][\A i \in Slots :
          (inv[i].pc = "rotate" /\ inv'[i].pc = "login") =>
             /\ Cardinality(SessionFiles(fs')) <= KeepCount
             /\ Cardinality(MapFiles(fs')) <= KeepCount
             /\ SessionFiles(fs') = Newest(SessionFiles(fs))
             /\ MapFiles(fs') = Newest(MapFiles(fs))]_vars


\* the path of the request holds /api/, /Api/ or /API/
PathHasMarker(info) == \E m \in ApiMarkers : Includes(info.path, m)

\* the observer holds a record of this request
Recorded(info) == \E k \in 1..Len(apiRequests) : apiRequests[k] = info

\* C17: the observer builds an endpoint record for a request if and only if
\* the request's path contains an API marker (/api/, /Api/ or /API/): a marker
\* that occurs only outside the path, as in the query string, gives no record,
\* and every request with the marker in its path gives one.
C17_RecordIffPathHasMarker ==
    nReq > 0 => (Recorded(LastInfo) <=> PathHasMarker(LastInfo))


\* C18: in the Fetch Orchestrator never more than MAX_CONCURRENT_CANDIDATES
\* candidates are being processed at once; with a maximum above 1 a further
\* pending candidate is started while others are still in flight (the pool
\* does not run them one by one); and the document downloads of one candidate
\* never overlap.
C18_BoundedPoolSequentialDocs ==
    /\ Cardinality(InFlight) <= maxConcurrent
    /\ (Pending # {} /\ Cardinality(InFlight) < maxConcurrent) =>
          ENABLED (\E c \in Candidates : Dispatch(c))
    /\ \A c \in Candidates :
          /\ Cardinality(cand[c].downloading) <= 1
          /\ cand[c].downloading # {} => c \in InFlight
          /\ \A d \in cand[c].downloading : d = cand[c].got + 1

\* the pool of two is full, both candidates are downloading a document, and a
\* third candidate waits
C18_Witness ==
    /\ maxConcurrent = 2
    /\ Cardinality(InFlight) = 2
    /\ Pending # {}
    /\ \A c \in InFlight : cand[c].downloading # {}


\* the identifiers of the rows, top to bottom
IdsOf(rows) == [k \in 1..Len(rows) |-> rows[k].id]

\* C19: merging the same candidate row set twice leaves the same data rows,
\* and as many, as merging it once (a new identifier is inserted, an existing
\* one updated, no unrelated row dropped, no identifier twice), while every
\* merge appends exactly one audit entry (two after two merges) and leaves the
\* earlier audit entries as they were.
C19_SyncIdempotent ==
    /\ [](/\ Len(audit) = nMerges
          /\ \A j, k \in 1..Len(sheet) : sheet[j].id = sheet[k].id => j = k
          /\ \A k \in 1..Len(lastRows) :
               \E j \in 1..Len(sheet) : sheet[j] = lastRows[k])
    /\ [][nMerges' = nMerges + 1 =>
            /\ Len(audit') = Len(audit) + 1
            /\ SubSeq(audit', 1, Len(audit)) = audit
            /\ \A k \in 1..Len(sheet) :
                 /\ sheet'[k].id = sheet[k].id
                 /\ ~HasId(lastRows', sheet[k].id) => sheet'[k] = sheet[k]
            /\ Len(sheet') =
                 Len(sheet) + Cardinality({k \in 1..Len(lastRows') :
                                             ~HasId(sheet, lastRows'[k].id)})
            /\ (nMerges > 0 /\ lastRows' = lastRows) =>
                 /\ sheet' = sheet
                 /\ audit'[Len(audit')].added = 0]_vars

\* two rows, one of them new to the sheet, were merged twice: three data rows,
\* two audit entries
C19_Witness ==
    /\ nMerges = 2
    /\ lastRows = <<Row(1, "v1"), Row(2, "v2")>>
    /\ sheet = <<Row(OldId, "v1"), Row(1, "v1"), Row(2, "v2")>>
    /\ Len(audit) = 2 /\ audit[1].added = 1 /\ audit[1].updated = 1
    /\ audit[2].added = 0 /\ audit[2].updated = 2


\* C20: every doRun that took runLock releases it on every exit (success,
\* non-2xx reply, rotation error, login error, network error): runLock is set
\* exactly while a run is executing, a run in progress ends, and a trigger
\* that comes when no run is executing is accepted.
C20_LockReleasedOnEveryExit ==
    /\ [](runLock <=> Active # {})
    /\ [][/\ \A i \in Slots : (inv[i].pc # "idle" /\ inv'[i].pc = "idle") => ~runLock'
          /\ (nTrig' = nTrig + 1 /\ Active = {}) =>
                /\ runLock' /\ inv'[nTrig'].pc = "rotate"
                /\ last' = last]_vars
    /\ \A i \in Slots : (inv[i].pc # "idle") ~> (inv[i].pc = "idle" /\ ~runLock)

\* a first run failed in its rotation, and the trigger after it was accepted
C20_Witness ==
    \E i \in Slots :
        /\ i > 1 /\ inv[i].pc = "rotate" /\ runLock
        /\ last.id = i - 1 /\ ~last.ok /\ last.message = "stat failed"


\* the file at a path, if there is one
FileAt(d, n) == {f \in fs : f.dir = d /\ f.name = n}

\* C21: the steps of an accepted run come in a fixed order: the rotation has
\* completed before the browser is launched; the session-state file and the
\* endpoint-map file of the run are both on disk before its POST to
\* /trigger-fetch is sent; and whatever the /health check gave (ok, not ok,
\* unreachable) the run goes on to the POST.
C21_RunStepOrder ==
    /\ [](\A i \in Slots :
            /\ inv[i].pc = "rotate" => i \notin browsers
            /\ inv[i].pc \in {"health", "post"} =>
                  /\ FileAt(inv[i].dir, SessionName(inv[i].sid)) # {}
                  /\ FileAt(inv[i].dir, ApiMapName(inv[i].sid)) # {}
                  /\ \A f \in FileAt(inv[i].dir, SessionName(inv[i].sid))
                            \cup FileAt(inv[i].dir, ApiMapName(inv[i].sid)) :
                        f.content = inv[i].sid
            /\ inv[i].pc = "post" => ENABLED postTrigger(i))
    /\ [][\A i \in Slots :
            /\ (i \notin browsers /\ i \in browsers') => inv[i].pc = "login"
            /\ (inv[i].pc # "login" /\ inv'[i].pc = "login") => inv[i].pc = "rotate"
            /\ (inv[i].pc = "health" /\ inv'[i] # inv[i]) =>
                  /\ inv'[i].pc = "post" /\ posts' = posts
                  /\ inv'[i].health \in {"ok", "notok", "unreachable"}
            /\ (inv[i].pc = "post" /\ inv'[i] # inv[i]) => posts' = Append(posts, Body(i))
            /\ (inv[i].pc # "post" /\ inv[i].pc # "idle") => posts' = posts]_vars

\* a run whose health check failed stands right before its POST, its rotation
\* done, its browser closed and both of its files written
C21_Witness ==
    \E i \in Slots :
        /\ inv[i].pc = "post" /\ inv[i].health \in {"notok", "unreachable"}
        /\ i \notin browsers
        /\ FileAt(inv[i].dir, SessionName(inv[i].sid)) # {}
        /\ FileAt(inv[i].dir, ApiMapName(inv[i].sid)) # {}
        /\ ENABLED postTrigger(i)


\* C22: at most one browser is open at any time, and a browser is open only
\* while the run that launched it is executing under runLock: every exit of
\* loginAndDiscover, by return or by throw, has closed it before doRun
\* releases the lock.
C22_NoBrowserOutlivesItsRun ==
    /\ Cardinality(browsers) <= 1
    /\ \A i \in browsers : inv[i].pc # "idle" /\ runLock


\* the session-state and endpoint-map files of session sid among the files F
OwnFiles(F, sid) == {f \in SessionFiles(F) \cup MapFiles(F) : f.name.id = sid}

\* the steps of loginAndDiscover during which the page emits requests and the
\* listener of attachApiDiscovery observes them
Observing ==
    {"goto", "email", "next", "password", "submit", "mfaPrompt", "mfaFind", "mfaPoll",
     "mfaJs", "mfaWait", "findOtp", "getOtp", "backoff", "fillOtp", "submitOtp", "settle",
     "verify", "dashboard"}

\* C23: nothing is written while requests are observed; the session-state
\* file and the endpoint map of a session are written only after the login
\* was verified, once each per run, the session-state file first: a run whose
\* login fails leaves neither file, and every endpoint map on disk has the
\* session-state file of its session beside it, written before it.
C23_PersistOnlyAfterVerified ==
    /\ [](/\ \A f \in MapFiles(fs) : \E g \in SessionFiles(fs) :
                 g.dir = f.dir /\ g.name.id = f.name.id /\ g.mtime < f.mtime
          /\ \A f, g \in SessionFiles(fs) \cup MapFiles(fs) :
                 (f.dir = g.dir /\ f.name = g.name) => f = g
          /\ \A i \in Active :
               /\ inv[i].pc \in Observing \cup {"saveState"} => OwnFiles(fs, inv[i].sid) = {}
               /\ inv[i].pc = "saveMap" =>
                     /\ FileAt(inv[i].dir, SessionName(inv[i].sid)) # {}
                     /\ FileAt(inv[i].dir, ApiMapName(inv[i].sid)) = {})
    /\ [][\A i \in Slots :
            /\ (inv[i].pc \in Observing /\ inv'[i] # inv[i]) => fs' = fs
            /\ (inv[i].pc # "dashboard" /\ inv'[i].pc = "dashboard") =>
                  inv[i].pc = "verify" /\ loginSuccess(inv'[i].ev)
            /\ (inv[i].pc # "saveState" /\ inv'[i].pc = "saveState") => inv[i].pc = "dashboard"
            /\ (inv[i].pc # "saveMap" /\ inv'[i].pc = "saveMap") =>
                  /\ inv[i].pc = "saveState"
                  /\ OwnFiles(fs', inv[i].sid) = FileAt(inv[i].dir, SessionName(inv[i].sid))'
                  /\ Cardinality(OwnFiles(fs', inv[i].sid)) = 1
                  /\ fs \subseteq fs'
            /\ (inv[i].pc = "saveMap" /\ inv'[i].pc = "finally" /\ inv'[i].err = "") =>
                  /\ Cardinality(OwnFiles(fs', inv[i].sid)) = 2
                  /\ fs \subseteq fs'
            /\ ~(inv[i].pc \in {"saveMap", "finally"} /\ inv'[i].pc \in {"saveState", "saveMap"}
                  /\ inv'[i] # inv[i])
            /\ (SessionFiles(fs') # SessionFiles(fs) /\ inv[i].pc # "idle") =>
                  inv[i].pc = "saveState"
            /\ (MapFiles(fs') # MapFiles(fs) /\ inv[i].pc # "idle") => inv[i].pc = "saveMap"
            /\ (inv[i].pc # "idle" /\ inv'[i].pc = "idle" /\ inv[i].sid # 0
                  /\ last'.message \in LoginErrors) =>
                  /\ last'.message # ErrSaveMap => OwnFiles(fs', inv[i].sid) = {}
                  /\ MapFiles(OwnFiles(fs', inv[i].sid)) = {}]_vars

\* a first run failed its verification and left no file; the run after it
\* has written its session-state file and then its endpoint map
C23_Witness ==
    \E i \in Slots :
        /\ inv[i].pc = "readmap" /\ inv[i].sid = 2
        /\ loginFailed = {i - 1} /\ last.message = ErrUnverified /\ OwnFiles(fs, 1) = {}
        /\ \E g \in FileAt(inv[i].dir, SessionName(2)) :
             \E f \in FileAt(inv[i].dir, ApiMapName(2)) : g.mtime < f.mtime


\* the elements of a sequence, and whether none of them comes twice
Range(seq) == {seq[k] : k \in 1..Len(seq)}
NoDup(seq) == \A j, k \in 1..Len(seq) : j # k => seq[j] # seq[k]

\* what the listener makes of each request the page may emit: whether it
\* passes the filter, its endpoint record, the group it is filed under and
\* the key it is filed at
Filed ==
    [req \in Requests |->
        LET info == InfoOf(req)
            group == IF isApiUrl(req.url) THEN classify(ToLower(info.path)) ELSE "none"
        IN [api |-> isApiUrl(req.url), info |-> info, group |-> group,
            key |-> IF group = "export" THEN exportKey(info) ELSE info.path]]

\* the endpoint records of the API requests among the first n observed ones
InfosOf(n) == {Filed[observed[k]].info : k \in {j \in 1..n : Filed[observed[j]].api}}

\* C24: the persisted endpoints list holds the record of every API request
\* observed before saveApiMap was called, classified into a group or not, and
\* holds each record once: requests equal in url, method, path and query give
\* one entry, however often they were repeated.
C24_EndpointsDistinctAndComplete ==
    /\ NoDup(apiRequests)
    /\ Range(apiRequests) = InfosOf(Len(observed))
    /\ saved.seen <= Len(observed)
    /\ saved.writes > 0 =>
          /\ NoDup(saved.endpoints)
          /\ Range(saved.endpoints) = InfosOf(saved.seen)
          /\ \A k \in 1..saved.seen :
                Filed[observed[k]].api =>
                   \E j \in 1..Len(saved.endpoints) :
                      /\ saved.endpoints[j].url = observed[k].url
                      /\ saved.endpoints[j].method = observed[k].method

\* the same request, one that falls into no group, was observed twice before
\* the map was saved, and the saved list has it once
C24_Witness ==
    /\ saved.writes = 1 /\ saved.seen = 2
    /\ observed[1] = observed[2]
    /\ Filed[observed[1]].api /\ Filed[observed[1]].group = "none"
    /\ saved.endpoints = <<Filed[observed[1]].info>>


\* the group the listener files a request under, and the key it files it at
GroupOf(req) == Filed[req].group
KeyOf(req) == Filed[req].key

\* among the first n observed requests, those filed under group g at key
FiledAt(n, g, key) == {k \in 1..n : GroupOf(observed[k]) = g /\ KeyOf(observed[k]) = key}

\* the group holds exactly the keys of the first n requests filed under g,
\* each with the record of the latest request filed at it
LatestPerKey(group, n, g) ==
    /\ DOMAIN group = {KeyOf(observed[k]) : k \in {j \in 1..n : GroupOf(observed[j]) = g}}
    /\ \A key \in DOMAIN group : group[key] = Filed[observed[Max(FiledAt(n, g, key))]].info

\* C25: each of exportEndpoints, candidateEndpoints and documentEndpoints has
\* one record per key, the record of the request observed last for that key:
\* a later request with the same key (another URL or method for the same tab
\* token, say) replaces the record that was there. The persisted groups are
\* those of the moment saveApiMap was called.
C25_LastRecordWinsPerKey ==
    /\ LatestPerKey(exportEndpoints, Len(observed), "export")
    /\ LatestPerKey(candidateEndpoints, Len(observed), "candidate")
    /\ LatestPerKey(documentEndpoints, Len(observed), "document")
    /\ saved.writes > 0 =>
          /\ LatestPerKey(saved.exportEndpoints, saved.seen, "export")
          /\ LatestPerKey(saved.candidateEndpoints, saved.seen, "candidate")
          /\ LatestPerKey(saved.documentEndpoints, saved.seen, "document")

\* two different requests were filed at the same key one after the other,
\* and the group holds the record of the second only
C25_Witness ==
    /\ Len(observed) = 2
    /\ Filed[observed[1]].info # Filed[observed[2]].info
    /\ GroupOf(observed[1]) = GroupOf(observed[2])
    /\ KeyOf(observed[1]) = KeyOf(observed[2])
    /\ \/ /\ GroupOf(observed[2]) = "export"
          /\ DOMAIN exportEndpoints = {KeyOf(observed[2])}
          /\ exportEndpoints[KeyOf(observed[2])] = Filed[observed[2]].info
       \/ /\ GroupOf(observed[2]) = "candidate"
          /\ DOMAIN candidateEndpoints = {KeyOf(observed[2])}
          /\ candidateEndpoints[KeyOf(observed[2])] = Filed[observed[2]].info


Init ==
    /\ credsSet \in BOOLEAN
    /\ usableDirs \in {{PwcDir, CwdDir}, {CwdDir}, {}}
    /\ started = FALSE
    /\ runLock = FALSE
    /\ inv = [i \in Slots |-> Idle]
    /\ nTrig = 0
    /\ \E full \in BOOLEAN :
       LET InitDir == IF ensureTmpDir = "throw" THEN PwcDir ELSE ensureTmpDir
           nt == IF full THEN MaxTmpJson ELSE 0
           ns == IF full THEN MaxInitSessions ELSE 0
       IN
         /\ fs = {File(TmpDir, PwcEntry, 0, 0)}
                  \cup {File(TmpDir, OtherName(k), k, 0) : k \in 1..nt}
                  \cup {File(InitDir, SessionName(k), 2 * k - 1, k) : k \in 1..ns}
                  \cup {File(InitDir, ApiMapName(k), 2 * k, k) : k \in 1..ns}
         /\ clock = (IF nt > 2 * ns THEN nt ELSE 2 * ns) + 1
         /\ uuidCount = ns
    /\ browsers = {}
    /\ posts = <<>>
    /\ last = Returned(0, "none", FALSE, "none", "none")
    /\ loginFailed = {}
    /\ ObsFresh
    /\ OtpQuiet
    /\ FetchQuiet
    /\ SyncQuiet

Next ==
    \/ Listen
    \/ IntervalTick
    \/ ManualPost
    \/ \E i \in Slots : rotateSessions(i)
    \/ \E i \in Slots : loginStart(i)
    \/ \E i \in Slots : gotoLogin(i)
    \/ \E i \in Slots : fillEmail(i)
    \/ \E i \in Slots : clickNext(i)
    \/ \E i \in Slots : fillPassword(i)
    \/ \E i \in Slots : submitLogin(i)
    \/ \E i \in Slots : mfaPrompt(i)
    \/ \E i \in Slots : mfaFind(i)
    \/ \E i \in Slots : mfaPoll(i)
    \/ \E i \in Slots : mfaJs(i)
    \/ \E i \in Slots : mfaWait(i)
    \/ \E i \in Slots : findOtp(i)
    \/ \E i \in Slots : getOtp(i)
    \/ \E i \in Slots : backoff(i)
    \/ \E i \in Slots : fillOtp(i)
    \/ \E i \in Slots : submitOtp(i)
    \/ \E i \in Slots : settle(i)
    \/ \E i \in Slots : verify(i)
    \/ \E i \in Slots : dashboard(i)
    \/ \E i \in Slots : saveState(i)
    \/ \E i \in Slots : saveMap(i)
    \/ \E i \in Slots : closeBrowser(i)
    \/ \E i \in Slots : readApiMap(i)
    \/ \E i \in Slots : health(i)
    \/ \E i \in Slots : postTrigger(i)

Spec == Init /\ [][Next]_vars

\* the steps of the run in progress: each is an await that settles (every
\* Playwright wait has a timeout, the HTTP calls answer or fail)
RunStep(i) ==
    \/ rotateSessions(i) \/ loginStart(i) \/ gotoLogin(i) \/ fillEmail(i)
    \/ clickNext(i) \/ fillPassword(i) \/ submitLogin(i) \/ mfaPrompt(i)
    \/ mfaFind(i) \/ mfaPoll(i) \/ mfaJs(i) \/ mfaWait(i) \/ findOtp(i)
    \/ getOtp(i) \/ backoff(i) \/ fillOtp(i) \/ submitOtp(i) \/ settle(i)
    \/ verify(i) \/ dashboard(i) \/ saveState(i) \/ saveMap(i)
    \/ closeBrowser(i) \/ readApiMap(i) \/ health(i) \/ postTrigger(i)

\* a process started on a disk without earlier sessions, with one *.json file
\* of another program in /tmp (so that rotation has a file to stat)
InitLive ==
    /\ credsSet \in BOOLEAN
    /\ usableDirs \in {{PwcDir, CwdDir}, {CwdDir}, {}}
    /\ started = FALSE
    /\ runLock = FALSE
    /\ inv = [i \in Slots |-> Idle]
    /\ nTrig = 0
    /\ fs = {File(TmpDir, PwcEntry, 0, 0), File(TmpDir, OtherName(1), 1, 0)}
    /\ clock = 2
    /\ uuidCount = 0
    /\ browsers = {}
    /\ posts = <<>>
    /\ last = Returned(0, "none", FALSE, "none", "none")
    /\ loginFailed = {}
    /\ ObsFresh
    /\ OtpQuiet
    /\ FetchQuiet
    /\ SyncQuiet

\* the scheduler with its awaits settling: the event loop resumes a run
\* whose pending promise has settled
SpecLive == InitLive /\ [][Next]_vars /\ WF_vars(\E i \in Slots : RunStep(i))

\* one attached discovery on its own: the scheduler stands still
InitObs ==
    /\ credsSet = TRUE
    /\ usableDirs = {PwcDir, CwdDir}
    /\ started = FALSE
    /\ runLock = FALSE
    /\ inv = [i \in Slots |-> Idle]
    /\ nTrig = 0
    /\ fs = {}
    /\ clock = 1
    /\ uuidCount = 0
    /\ browsers = {}
    /\ posts = <<>>
    /\ last = Returned(0, "none", FALSE, "none", "none")
    /\ loginFailed = {}
    /\ ObsFresh
    /\ OtpQuiet
    /\ FetchQuiet
    /\ SyncQuiet

NextObs ==
    \/ \E req \in Requests : onRequest(req)
    \/ saveApiMap

SpecObs == InitObs /\ [][NextObs]_vars

\* the scheduler at rest: nothing started, nothing on disk
SchedQuiet ==
    /\ credsSet = TRUE
    /\ usableDirs = {PwcDir, CwdDir}
    /\ started = FALSE
    /\ runLock = FALSE
    /\ inv = [i \in Slots |-> Idle]
    /\ nTrig = 0
    /\ fs = {}
    /\ clock = 1
    /\ uuidCount = 0
    /\ browsers = {}
    /\ posts = <<>>
    /\ last = Returned(0, "none", FALSE, "none", "none")
    /\ loginFailed = {}

\* one call of getGmailOtp on its own
InitOtp ==
    /\ SchedQuiet
    /\ ObsFresh
    /\ gmail \in {[creds |-> FALSE, found |-> FALSE, mail |-> NoMail],
                  [creds |-> TRUE, found |-> FALSE, mail |-> NoMail]}
                 \cup {[creds |-> TRUE, found |-> TRUE, mail |-> m] : m \in Mails}
    /\ otpOut = NotCalled
    /\ FetchQuiet
    /\ SyncQuiet

NextOtp == getGmailOtp

SpecOtp == InitOtp /\ [][NextOtp]_vars

\* one batch of the Fetch Orchestrator on its own
InitFetch ==
    /\ SchedQuiet
    /\ ObsFresh
    /\ OtpQuiet
    /\ maxConcurrent \in 1..MaxPool
    /\ cand = [c \in Candidates |-> Waiting]
    /\ SyncQuiet

NextFetch ==
    \/ \E c \in Candidates : Dispatch(c)
    \/ \E c \in Candidates : FetchProfile(c)
    \/ \E c \in Candidates : StartDoc(c)
    \/ \E c \in Candidates : EndDoc(c)
    \/ \E c \in Candidates : FinishCandidate(c)

SpecFetch == InitFetch /\ [][NextFetch]_vars

\* the Sync/Audit Writer on its own, over a sheet that may hold earlier rows
InitSync ==
    /\ SchedQuiet
    /\ ObsFresh
    /\ OtpQuiet
    /\ FetchQuiet
    /\ sheet \in {<<>>, <<Row(OldId, "v1")>>, <<Row(OldId, "v1"), Row(1, "v2")>>}
    /\ audit = <<>>
    /\ lastRows = <<>>
    /\ nMerges = 0

NextSync == \E new \in RowSets : Merge(new)

SpecSync == InitSync /\ [][NextSync]_vars
====
